---- MODULE Spec2Model ----
(***************************************************************************)
(* Submission, confirmation and persistence of subscription payments.      *)
(*                                                                         *)
(* The model follows the backend of the repository:                        *)
(*   solana/transaction/send.ts      sendTransaction, confirmSignature     *)
(*   api/confirm.ts                  POST /confirm/transactions            *)
(*   solana/transaction/validate.ts  validateTransaction                   *)
(*   db                              payments and subscriptions tables     *)
(* Every handler is asynchronous JavaScript: the code between two awaits   *)
(* runs atomically, and handlers interleave at their awaits. One action of *)
(* the model is one such atomic step.                                      *)
(***************************************************************************)
EXTENDS Integers, FiniteSets, Sequences, TLC

\* ------------------------------------------------------------------ bounds
\* Most poll requests of one confirmation the RPC leaves unanswered at a time.
MaxInFlight ==
    2

\* The wall clock (in days) stops advancing here.
MaxNow ==
    2

\* --------------------------------------------------------------- constants
\* setInterval(checkConfirmation, 500)
POLL_INTERVAL ==
    500

\* const TIMEOUT_DURATION = 8000
TIMEOUT_DURATION ==
    8000

\* The interval timer fires this many times before the timeout is due.
TicksToTimeout ==
    TIMEOUT_DURATION \div POLL_INTERVAL

\* if (paymentDetails.amountUsdc < 2)
MIN_AMOUNT ==
    2

\* ------------------------------------------------------------- the requests
\* The concurrent transaction handlers: the entries of one batch, or two
\* requests served at the same time.
Workers ==
    {"w1", "w2"}

\* The signed wire transactions a client can hand in.
Txs ==
    {"t1", "t2", "t3"}

\* The signature the network assigns to a transaction.
Signature(t) ==
    CASE t = "t1" -> "s1"
      [] t = "t2" -> "s2"
      [] t = "t3" -> "s3"

\* config.RECEIVER: the address subscription payments go to.
RECEIVER ==
    "receiver"

\* The token transfer a wire transaction carries: t1 and t2 pay the
\* receiver, t3 pays somebody else.
Transfer(t) ==
    CASE t = "t1" -> [source |-> "alice", destination |-> RECEIVER, amount |-> 20]
      [] t = "t2" -> [source |-> "alice", destination |-> RECEIVER, amount |-> 100]
      [] t = "t3" -> [source |-> "alice", destination |-> "mallory", amount |-> 20]

\* The parsed transaction the RPC returns once a transfer landed without
\* error: the account keys, fee payer first, and the balances of the payment
\* asset (USDC) before and after, one entry per token account.
MetaOf(tr) ==
    [accountKeys |-> <<tr.source, tr.destination>>,
     preTokenBalances |-> <<[owner |-> tr.source, amount |-> 150],
                            [owner |-> tr.destination, amount |-> 0]>>,
     postTokenBalances |-> <<[owner |-> tr.source, amount |-> 150 - tr.amount],
                             [owner |-> tr.destination, amount |-> tr.amount]>>]

\* rpc.getTransaction(signature) for a landed signature.
TxMeta(s) ==
    MetaOf(Transfer(CHOOSE t \in Txs : Signature(t) = s))

Empty ==
    ""

Pending ==
    "pending"

NoResult ==
    [signature |-> "none", status |-> "none", error |-> "none"]

VARIABLES
    txOf,          \* w -> the wire transaction handed to handler w
    hasPayment,    \* w -> the request carries a payments entry for the transaction
    payment,       \* w -> that entry, as the client wrote it
    pc,            \* w -> where handler w stands
    promise,       \* w -> the promise confirmSignature returned: Pending or its value
    isResolved,    \* w -> the latch of confirmSignature
    intervalOn,    \* w -> the setInterval timer is armed
    timeoutOn,     \* w -> the setTimeout timer is armed
    ticks,         \* w -> how often the armed interval timer has fired
    inflight,      \* w -> getTransaction polls sent and not yet answered
    resolveCalls,  \* w -> how often a resolution branch ran resolve()
    cause,         \* w -> what settled the promise
    errSeen,       \* w -> a poll of confirmSignature was answered with an on-chain error
    subscribed,    \* w -> the signature subscription of waitForTransactionConfirmation is open
    chain,         \* t -> what the network made of transaction t: "none", "ok" or "err"
    existing,      \* w -> what getPaymentByTransactionHash returned to validateTransaction
    added,         \* w -> what addPayment returned to validateTransaction
    pdate,         \* w -> paymentDate of validateTransaction
    upserts,       \* w -> subscription writes the handler's call attempted
    upsertFailed,  \* w -> one of these writes failed
    result,        \* w -> the per-transaction result of the route
    payments,      \* the payments table: a set of rows
    subscriptions, \* the subscriptions table: wallet -> end date, 0 when there is no row
    now,           \* the wall clock, in days
    lastWriter,    \* the handler whose subscription write came last
    history,       \* status changes of payment rows: <<hash, from, to>>, from "none" at the insert
    response,      \* the answer of the batch: the results in order, <<>> before the join
    input,         \* the argument of a function applied on its own
    output,        \* what the function returned
    verifyPc,      \* where verifyTransactions stands
    attempt,       \* its loop counter
    pendingSignatures, \* its signatures not fetched yet, each with its index
    fetchedMap,    \* its fetched transactions: signature -> "ok", "err", or "none"
    waited,        \* the waits it has made, in ms
    fetchRounds    \* the rounds of getTransaction calls it has made

vars ==
    <<txOf, hasPayment, pc, promise, isResolved, intervalOn, timeoutOn, ticks, inflight,
      resolveCalls, cause, errSeen, subscribed, chain, existing, added, pdate, result, payments,
      subscriptions, now, lastWriter, history, upserts, upsertFailed, response, input, output,
      payment, verifyPc, attempt, pendingSignatures, fetchedMap, waited, fetchRounds>>

\* The state of verifyTransactions.
verifyVars ==
    <<verifyPc, attempt, pendingSignatures, fetchedMap, waited, fetchRounds>>

\* A function applied on its own: its argument and what it returned.
callVars ==
    <<input, output, verifyVars>>

reqVars ==
    <<txOf, hasPayment, payment>>

submitVars ==
    <<promise, isResolved, intervalOn, timeoutOn, ticks, inflight,
      resolveCalls, cause, errSeen, chain>>

dbVars ==
    <<payments, subscriptions, now, lastWriter, history>>

validateVars ==
    <<existing, added, pdate, upserts, upsertFailed>>

Wallets ==
    {"alice"}

\* ------------------------------------------------------------ the database
\* SELECT * FROM payments WHERE transaction_hash = ?
getPaymentByTransactionHash(hash) ==
    {r \in payments : r.transaction_hash = hash}

\* subscription_end_date.setDate(getDate() + days)
AddDays(date, days) ==
    date + days

InsertAcceptedNoUnique(row) ==
    TRUE

\* INSERT INTO payments ...: the UNIQUE constraint on transaction_hash
\* rejects a second row of the same hash (the statement throws).
InsertAccepted(row) ==
    getPaymentByTransactionHash(row.transaction_hash) = {}

updateSubscriptionStacked(subs, wallet, endDate) ==
    [subs EXCEPT ![wallet] = IF @ > now THEN @ + (endDate - now) ELSE endDate]

updateSubscriptionKeepLatest(subs, wallet, endDate) ==
    [subs EXCEPT ![wallet] = IF @ > endDate THEN @ ELSE endDate]

\* INSERT INTO subscriptions ... ON CONFLICT(wallet_address) DO UPDATE SET
\* subscription_end_date = excluded.subscription_end_date
updateSubscription(subs, wallet, endDate) ==
    [subs EXCEPT ![wallet] = endDate]

\* The row addPayment writes for a payment.
PaymentRow(hash, wallet, amount, date, days, status) ==
    [transaction_hash |-> hash, wallet_address |-> wallet, amount_usdc |-> amount,
     payment_date |-> date, subscription_duration_days |-> days,
     subscription_end_date |-> AddDays(date, days), status |-> status]

\* The status UPDATE payments SET status = ? WHERE transaction_hash = ? leaves
\* in a row that holds `current`.
UpdatedStatus(current, status) ==
    status

\* updatePaymentStatus: the table after the UPDATE.
updatePaymentStatus(hash, status) ==
    {IF r.transaction_hash = hash
        THEN [r EXCEPT !.status = UpdatedStatus(r.status, status)]
        ELSE r : r \in payments}

\* The status changes updatePaymentStatus(hash, status) makes.
StatusChanges(hash, status) ==
    {<<hash, r.status, UpdatedStatus(r.status, status)>> :
        r \in {q \in getPaymentByTransactionHash(hash) :
                  UpdatedStatus(q.status, status) /= q.status}}

\* One subscription write of handler w, updateSubscription or
\* upsertSubscription, that leaves the table `written` when it succeeds. A
\* failing statement is caught inside the function, which returns false and
\* leaves the table as it was.
SubscriptionWrite(w, written, ok) ==
    /\ upserts' = [upserts EXCEPT ![w] = @ + 1]
    /\ upsertFailed' = [upsertFailed EXCEPT ![w] = @ \/ ~ok]
    /\ IF ok
        THEN subscriptions' = written /\ lastWriter' = w
        ELSE UNCHANGED <<subscriptions, lastWriter>>

NoSubscriptionWrite ==
    UNCHANGED <<upserts, upsertFailed, subscriptions, lastWriter>>

addPaymentAlwaysUpdatesSubscription(inserted) ==
    TRUE

addPaymentSkipsSubscription(inserted) ==
    FALSE

\* addPayment reaches await updateSubscription(...) when the INSERT did not
\* throw.
addPaymentUpdatesSubscription(inserted) ==
    inserted

\* ----------------------------------------------------- validateTransaction
\* extractPaymentDetailsFromMeta: null (here NoDetails) unless the signer's
\* balance of the payment asset went down.
NoDetails ==
    [walletAddress |-> "none", amountUsdc |-> 0, recipient |-> "none"]

\* The entries of a token balance list that belong to owner.
OwnedBy(balances, owner) ==
    LET Mine(b) == b.owner = owner IN SelectSeq(balances, Mine)

NoBalance ==
    [found |-> FALSE, negative |-> FALSE, abs |-> 0]

\* balanceMap.get(USDC_MINT) after the two passes over the signer's entries.
\* The map is keyed by mint, so the entries of several token accounts of the
\* signer overwrite one another. With pre entries only, the difference is
\* the negated first pre amount (negative even when it is zero); with post
\* entries, it is the last post amount minus the last pre amount.
usdcBalance(meta, signer) ==
    LET P == OwnedBy(meta.preTokenBalances, signer)
        Q == OwnedBy(meta.postTokenBalances, signer)
        pre == IF P = <<>> THEN 0 ELSE P[Len(P)].amount
        post == IF Q = <<>> THEN 0 ELSE Q[Len(Q)].amount
    IN IF P = <<>> /\ Q = <<>> THEN NoBalance
       ELSE IF Q = <<>> THEN [found |-> TRUE, negative |-> TRUE, abs |-> P[1].amount]
       ELSE [found |-> TRUE, negative |-> post < pre,
             abs |-> IF post < pre THEN pre - post ELSE post - pre]

\* The recipient: the second account key, else the owner of the last post
\* entry that is not the signer's, else '' (here "none").
recipientOf(meta, signer) ==
    LET others == LET NotMine(b) == b.owner /= signer
                  IN SelectSeq(meta.postTokenBalances, NotMine)
    IN IF Len(meta.accountKeys) > 1 THEN meta.accountKeys[2]
       ELSE IF others /= <<>> THEN others[Len(others)].owner
       ELSE "none"

extractPaymentDetailsFromMeta(meta) ==
    LET signer == meta.accountKeys[1]
        usdc == usdcBalance(meta, signer)
    IN IF ~usdc.found THEN NoDetails
       ELSE IF ~usdc.negative THEN NoDetails
       ELSE IF recipientOf(meta, signer) = "none" THEN NoDetails
       ELSE [walletAddress |-> signer, amountUsdc |-> usdc.abs,
             recipient |-> recipientOf(meta, signer)]

\* Determine subscription duration based on amount.
subscriptionDurationDays(amount) ==
    IF amount >= 100 THEN 365 ELSE 30

\* ------------------------------------------------------- confirmSignature
resolveOverwrites(p, v) ==
    v

\* resolve(v) on a promise: only the first call settles it.
resolve(p, v) ==
    IF p = Pending THEN v ELSE p

\* isResolved = true; cleanup(); resolve(v) -- the resolution branches of
\* checkConfirmation and of the timeout callback. cleanup() clears both
\* timers, and with them the time they have counted.
Resolution(w, v, c) ==
    /\ isResolved' = [isResolved EXCEPT ![w] = TRUE]
    /\ intervalOn' = [intervalOn EXCEPT ![w] = FALSE]
    /\ timeoutOn' = [timeoutOn EXCEPT ![w] = FALSE]
    /\ ticks' = [ticks EXCEPT ![w] = 0]
    /\ promise' = [promise EXCEPT ![w] = resolve(@, v)]
    /\ resolveCalls' = [resolveCalls EXCEPT ![w] = @ + 1]
    /\ cause' = [cause EXCEPT ![w] = IF promise[w] = Pending THEN c ELSE @]

NoResolution ==
    UNCHANGED <<isResolved, intervalOn, timeoutOn, ticks, promise, resolveCalls, cause>>

\* checkConfirmation up to its await: nothing when the latch is set, else
\* one getTransaction request goes out.
PollsSent(w) ==
    IF isResolved[w] THEN 0 ELSE 1

\* What a getTransaction call for transaction t can answer: nothing yet
\* (null), an RPC error (the call throws), or the landed transaction, whose
\* fate on the chain never changes.
Answers(t) ==
    {"null", "throw"} \cup (IF chain[t] = "none" THEN {"ok", "err"} ELSE {chain[t]})

Landed(t, r) ==
    IF r \in {"ok", "err"} THEN [chain EXCEPT ![t] = r] ELSE chain

\* The polls that can still be answered: of more than MaxInFlight unanswered
\* polls the RPC never answers the excess.
Unanswered(n) ==
    IF n > MaxInFlight THEN MaxInFlight ELSE n

ClassifyRetryOnError(r) ==
    CASE r = "ok" -> "confirmed"
      [] OTHER -> "continue"

\* What checkConfirmation makes of the answer of a poll: found without error,
\* found with an on-chain error, or not found yet (null, or the call threw).
Classify(r) ==
    CASE r = "ok" -> "confirmed"
      [] r = "err" -> "onchain"
      [] OTHER -> "continue"

\* resolve('') of the timeout callback.
OutcomeOnTimeout(w) ==
    Empty

TimeoutResolvesWhenIdle(w) ==
    ~isResolved[w] /\ inflight[w] = 0

\* if (!isResolved) of the timeout callback.
TimeoutResolves(w) ==
    ~isResolved[w]

\* The handler receives its transaction and calls sendTransaction, which
\* awaits rpc.sendTransaction.
StartRequest(w) ==
    /\ pc[w] = "idle"
    /\ pc' = [pc EXCEPT ![w] = "sending"]
    /\ UNCHANGED <<callVars, response, reqVars, subscribed, submitVars, validateVars, result, dbVars>>

\* rpc.sendTransaction returned the signature: confirmSignature arms the
\* interval and the timeout and makes the initial check.
SendReturns(w) ==
    /\ pc[w] = "sending"
    /\ pc' = [pc EXCEPT ![w] = "confirming"]
    /\ intervalOn' = [intervalOn EXCEPT ![w] = TRUE]
    /\ timeoutOn' = [timeoutOn EXCEPT ![w] = TRUE]
    /\ inflight' = [inflight EXCEPT ![w] = Unanswered(@ + PollsSent(w))]
    /\ UNCHANGED <<callVars, response, reqVars, subscribed, promise, isResolved, ticks, resolveCalls, cause, errSeen,
                   chain, validateVars, result, dbVars>>

\* rpc.sendTransaction threw. The catch of sendTransaction marks the payment
\* failed when the error carries a signature, and rethrows; the catch of the
\* route answers failed.
SendThrows(w, withSignature) ==
    /\ pc[w] = "sending"
    /\ pc' = [pc EXCEPT ![w] = "done"]
    /\ LET hash == Signature(txOf[w]) IN
        IF withSignature
            THEN /\ payments' = updatePaymentStatus(hash, "failed")
                 /\ history' = history \cup StatusChanges(hash, "failed")
            ELSE UNCHANGED <<payments, history>>
    /\ result' = [result EXCEPT ![w] =
                    [signature |-> Empty, status |-> "failed", error |-> "SubmissionFailed"]]
    /\ UNCHANGED <<callVars, response, reqVars, subscribed, submitVars, validateVars, subscriptions, now, lastWriter>>

\* The interval timer fires and runs checkConfirmation up to its await.
IntervalTick(w) ==
    /\ intervalOn[w]
    /\ timeoutOn[w] => ticks[w] < TicksToTimeout
    /\ ticks[w] <= TicksToTimeout
    /\ ticks' = [ticks EXCEPT ![w] = @ + 1]
    /\ inflight' = [inflight EXCEPT ![w] = Unanswered(@ + PollsSent(w))]
    /\ UNCHANGED <<callVars, response, reqVars, subscribed, pc, promise, isResolved, intervalOn, timeoutOn, resolveCalls,
                   cause, errSeen, chain, validateVars, result, dbVars>>

\* checkConfirmation after its await: the answer r of one poll arrives.
PollResponse(w, r) ==
    /\ inflight[w] > 0
    /\ r \in Answers(txOf[w])
    /\ inflight' = [inflight EXCEPT ![w] = @ - 1]
    /\ chain' = Landed(txOf[w], r)
    /\ errSeen' = [errSeen EXCEPT ![w] = @ \/ r = "err"]
    /\ CASE Classify(r) = "confirmed" -> Resolution(w, Signature(txOf[w]), "confirmed")
         [] Classify(r) = "onchain" -> Resolution(w, Empty, "onchain")
         [] OTHER -> NoResolution
    /\ UNCHANGED <<callVars, response, reqVars, subscribed, pc, validateVars, result, dbVars>>

\* The timeout callback.
Timeout(w) ==
    /\ timeoutOn[w]
    /\ ticks[w] >= TicksToTimeout - 1
    /\ IF TimeoutResolves(w)
        THEN Resolution(w, OutcomeOnTimeout(w), "timeout")
        ELSE /\ timeoutOn' = [timeoutOn EXCEPT ![w] = FALSE]
             /\ UNCHANGED <<isResolved, intervalOn, ticks, promise, resolveCalls, cause>>
    /\ UNCHANGED <<callVars, response, reqVars, subscribed, pc, inflight, errSeen, chain, validateVars,
                   result, dbVars>>

\* ------------------------------------------------ POST /confirm/transactions
Failure(sig, err) ==
    [signature |-> sig, status |-> "confirmed_but_validation_failed", error |-> err]

\* const signature = await sendTransaction(transaction) returned. With a
\* signature and a payments entry the route fetches the confirmed
\* transaction; else it answers at once.
RouteAfterSend(w) ==
    /\ pc[w] = "confirming"
    /\ promise[w] /= Pending
    /\ IF promise[w] /= Empty /\ hasPayment[w]
        THEN /\ pc' = [pc EXCEPT ![w] = "fetching"]
             /\ UNCHANGED result
        ELSE /\ pc' = [pc EXCEPT ![w] = "done"]
             /\ result' = [result EXCEPT ![w] =
                    [signature |-> promise[w],
                     status |-> IF promise[w] /= Empty THEN "confirmed" ELSE "failed",
                     error |-> "none"]]
    /\ UNCHANGED <<callVars, response, reqVars, subscribed, submitVars, validateVars, dbVars>>

\* The route's own rpc.getTransaction answered. A missing or failed
\* transaction throws; else validateTransaction starts and runs up to its
\* first await, the lookup of an existing payment.
FetchResponse(w, r) ==
    /\ pc[w] = "fetching"
    /\ r \in Answers(txOf[w])
    /\ chain' = Landed(txOf[w], r)
    /\ IF r = "ok"
        THEN /\ pc' = [pc EXCEPT ![w] = "validating"]
             /\ existing' = [existing EXCEPT ![w] =
                                getPaymentByTransactionHash(promise[w]) /= {}]
             /\ UNCHANGED result
        ELSE /\ pc' = [pc EXCEPT ![w] = "done"]
             /\ result' = [result EXCEPT ![w] = Failure(promise[w], "FetchFailed")]
             /\ UNCHANGED existing
    /\ UNCHANGED <<callVars, response, reqVars, subscribed, promise, isResolved, intervalOn, timeoutOn, ticks, inflight,
                   resolveCalls, cause, errSeen, added, pdate, upserts, upsertFailed, dbVars>>

PassesExistingCheckAlways(found) ==
    TRUE

\* Whether validateTransaction goes on after the lookup of an existing
\* payment returned `found`: if (existingPayment) throw.
PassesExistingCheck(found) ==
    ~found

\* validateTransaction from the existing-payment check to the await inside
\* addPayment: extraction, minimum amount, duration, the INSERT and the
\* subscription write of addPayment. d is the wall clock at new Date(), ok
\* whether the subscription write succeeds.
ValidateBody(w, d, ok) ==
    /\ pc[w] = "validating"
    /\ d \in {now, IF now < MaxNow THEN now + 1 ELSE now}
    /\ LET sig == promise[w]
           details == extractPaymentDetailsFromMeta(TxMeta(sig))
           days == subscriptionDurationDays(details.amountUsdc)
           row == PaymentRow(sig, details.walletAddress, details.amountUsdc, d, days,
                             "confirmed")
           stop(err) ==
               /\ pc' = [pc EXCEPT ![w] = "done"]
               /\ result' = [result EXCEPT ![w] = Failure(sig, err)]
               /\ UNCHANGED <<added, pdate, upserts, upsertFailed, dbVars>>
       IN
        IF ~PassesExistingCheck(existing[w]) THEN stop("DuplicatePayment")
        ELSE IF details = NoDetails THEN stop("NoPaymentDetected")
        ELSE IF details.amountUsdc < MIN_AMOUNT THEN stop("AmountTooLow")
        ELSE /\ pc' = [pc EXCEPT ![w] = "added"]
             /\ pdate' = [pdate EXCEPT ![w] = d]
             /\ now' = d
             /\ added' = [added EXCEPT ![w] = InsertAccepted(row)]
             /\ IF InsertAccepted(row)
                 THEN /\ payments' = payments \cup {row}
                      /\ history' = history \cup {<<sig, "none", "confirmed">>}
                 ELSE UNCHANGED <<payments, history>>
             /\ IF addPaymentUpdatesSubscription(InsertAccepted(row))
                 THEN SubscriptionWrite(w, updateSubscription(subscriptions,
                            row.wallet_address, row.subscription_end_date), ok)
                 ELSE NoSubscriptionWrite
             /\ UNCHANGED result
    /\ UNCHANGED <<callVars, response, reqVars, subscribed, submitVars, existing>>

\* upsertSubscription of the db module: create the payer's subscription row
\* or set its end date.
upsertSubscription(subs, wallet, endDate) ==
    updateSubscription(subs, wallet, endDate)

RaisesUpsertFailureToCaller(subscriptionSuccess) ==
    ~subscriptionSuccess

\* if (!subscriptionSuccess) console.warn(...): a failed upsert is logged
\* and never thrown.
RaisesUpsertFailure(subscriptionSuccess) ==
    FALSE

\* validateTransaction after addPayment returned: a rejected insert throws,
\* else the subscription is upserted with paymentDate + duration; ok is
\* whether the upsert succeeds.
ValidateAfterAdd(w, ok) ==
    /\ pc[w] = "added"
    /\ LET sig == promise[w]
           details == extractPaymentDetailsFromMeta(TxMeta(sig))
           days == subscriptionDurationDays(details.amountUsdc)
       IN
        IF ~added[w]
            THEN /\ pc' = [pc EXCEPT ![w] = "done"]
                 /\ result' = [result EXCEPT ![w] = Failure(sig, "PersistFailed")]
                 /\ NoSubscriptionWrite
            ELSE /\ SubscriptionWrite(w, upsertSubscription(subscriptions,
                        details.walletAddress, AddDays(pdate[w], days)), ok)
                 /\ IF RaisesUpsertFailure(ok)
                     THEN /\ pc' = [pc EXCEPT ![w] = "done"]
                          /\ result' = [result EXCEPT ![w] = Failure(sig, "UpsertFailed")]
                     ELSE /\ pc' = [pc EXCEPT ![w] = "upserted"]
                          /\ UNCHANGED result
    /\ UNCHANGED <<callVars, response, reqVars, subscribed, submitVars, existing, added, pdate,
                   payments, now, history>>

\* validateTransaction returned and the route answers confirmed.
ValidateReturn(w) ==
    /\ pc[w] = "upserted"
    /\ pc' = [pc EXCEPT ![w] = "done"]
    /\ result' = [result EXCEPT ![w] =
                    [signature |-> promise[w], status |-> "confirmed", error |-> "none"]]
    /\ UNCHANGED <<callVars, response, reqVars, subscribed, submitVars, validateVars, dbVars>>

\* ------------------------------------------------------------ the request
\* const payment = payments?.[i] when the body carries no entry.
NoPayment ==
    [wallet_address |-> "none", amount_usdc |-> 0, subscription_duration_days |-> 0]

\* The payments entry the web client writes for transaction t: the connected
\* account, the amount typed, and 365 days from 100 on, else 30.
ClientPayment(t) ==
    [wallet_address |-> Transfer(t).source,
     amount_usdc |-> Transfer(t).amount,
     subscription_duration_days |-> IF Transfer(t).amount >= 100 THEN 365 ELSE 30]

\* The entries a request may carry for transaction t: the body is whatever
\* the caller wrote, the web client's entry or any other.
PaymentEntries(t) ==
    {ClientPayment(t),
     [wallet_address |-> "mallory", amount_usdc |-> 100, subscription_duration_days |-> 365]}

\* subscriptionDetails of a confirmed result that went through
\* validateTransaction.
subscriptionDetails(w) ==
    [walletAddress |-> payment[w].wallet_address,
     amountUsdc |-> payment[w].amount_usdc,
     durationDays |-> payment[w].subscription_duration_days]

\* ------------------------------------------------------------ specification
\* The state after the server started and the handlers in `active` received
\* their requests; the other handlers serve no request.
InitWith(active) ==
    /\ txOf \in {f \in [Workers -> Txs] :
                    f["w1"] = "t1" /\ \A w \in Workers \ active : f[w] = "t1"}
    /\ hasPayment \in {f \in [Workers -> BOOLEAN] : \A w \in Workers \ active : ~f[w]}
    /\ payment \in {f \in [Workers -> {NoPayment} \cup UNION {PaymentEntries(t) : t \in Txs}] :
                        \A w \in Workers : IF hasPayment[w]
                                                THEN f[w] \in PaymentEntries(txOf[w])
                                                ELSE f[w] = NoPayment}
    /\ pc = [w \in Workers |-> IF w \in active THEN "idle" ELSE "off"]
    /\ promise = [w \in Workers |-> Pending]
    /\ isResolved = [w \in Workers |-> FALSE]
    /\ intervalOn = [w \in Workers |-> FALSE]
    /\ timeoutOn = [w \in Workers |-> FALSE]
    /\ ticks = [w \in Workers |-> 0]
    /\ inflight = [w \in Workers |-> 0]
    /\ resolveCalls = [w \in Workers |-> 0]
    /\ cause = [w \in Workers |-> "none"]
    /\ errSeen = [w \in Workers |-> FALSE]
    /\ subscribed = [w \in Workers |-> FALSE]
    /\ chain = [t \in Txs |-> "none"]
    /\ existing = [w \in Workers |-> FALSE]
    /\ added = [w \in Workers |-> FALSE]
    /\ pdate = [w \in Workers |-> 0]
    /\ upserts = [w \in Workers |-> 0]
    /\ upsertFailed = [w \in Workers |-> FALSE]
    /\ response = <<>>
    /\ result = [w \in Workers |-> NoResult]
    /\ payments = {}
    /\ subscriptions = [a \in Wallets |-> 0]
    /\ now = 1
    /\ lastWriter = "none"
    /\ history = {}
    /\ verifyPc = "idle"
    /\ attempt = 0
    /\ pendingSignatures = <<>>
    /\ fetchedMap = [s \in {Signature(t) : t \in Txs} |-> "none"]
    /\ waited = <<>>
    /\ fetchRounds = 0

NoInput ==
    [kind |-> "none"]

NoOutput ==
    [error |-> "unset"]

\* No function is applied on its own.
NoCall ==
    input = NoInput /\ output = NoOutput

Init ==
    InitWith(Workers) /\ NoCall

\* One invocation of the submitter on its own.
InitSubmit ==
    InitWith({"w1"}) /\ NoCall

\* The handlers of a batch in the order of body.transactions.
Batch ==
    <<"w1", "w2">>

AnySettled ==
    \E w \in Workers : pc[w] = "done"

\* await Promise.all(transactionPromises): every handler of the batch has
\* returned its result. No handler rejects: each wraps its body in try/catch.
AllSettled ==
    \A w \in Workers : pc[w] \in {"done", "off"}

\* The route answers { signatures, transactions: results }.
JoinAll ==
    /\ response = <<>>
    /\ AllSettled
    /\ LET IsActive(w) == pc[w] /= "off"
           active == SelectSeq(Batch, IsActive)
       IN response' = [i \in 1..Len(active) |-> result[active[i]]]
    /\ UNCHANGED <<callVars, reqVars, pc, subscribed, submitVars, validateVars, result, dbVars>>

Next ==
    \/ JoinAll
    \/ \E w \in Workers :
        \/ StartRequest(w)
        \/ SendReturns(w)
        \/ \E b \in BOOLEAN : SendThrows(w, b)
        \/ IntervalTick(w)
        \/ \E r \in {"ok", "err", "null", "throw"} : PollResponse(w, r)
        \/ Timeout(w)
        \/ RouteAfterSend(w)
        \/ \E r \in {"ok", "err", "null", "throw"} : FetchResponse(w, r)
        \/ \E d \in 1..MaxNow, ok \in BOOLEAN : ValidateBody(w, d, ok)
        \/ \E ok \in BOOLEAN : ValidateAfterAdd(w, ok)
        \/ ValidateReturn(w)

Spec ==
    Init /\ [][Next]_vars

\* The event loop runs every timer that is due and every continuation that
\* is ready; nothing is assumed of the RPC.
Fairness ==
    \A w \in Workers :
        /\ WF_vars(IntervalTick(w))
        /\ WF_vars(Timeout(w))
        /\ WF_vars(RouteAfterSend(w))

SubmitSpec ==
    InitSubmit /\ [][Next]_vars /\ Fairness

\* --------------------------------------------- functions applied on their own
\* Nothing of the handlers or the tables changes.
pipelineVars ==
    <<reqVars, pc, subscribed, submitVars, validateVars, result, dbVars, response>>

\* The largest amount paid.
MaxAmount ==
    100

\* getPlanTypeFromAmount: the plan name of an amount and its duration.
getPlanTypeFromAmount(amount, durationDays) ==
    IF durationDays = 30 /\ amount = 2 THEN "Monthly Pro I"
    ELSE IF durationDays = 30 /\ amount = 10 THEN "Monthly Pro II"
    ELSE IF durationDays = 365 /\ amount = 20 THEN "Yearly Pro I"
    ELSE IF durationDays = 365 /\ amount = 100 THEN "Yearly Pro II"
    ELSE "Custom Plan"

\* validateTransaction from the minimum check to the plan type: what the
\* ledger makes of an amount.
planAndDuration(amount) ==
    IF amount < MIN_AMOUNT
        THEN [error |-> "AmountTooLow", plan |-> "none", days |-> 0]
        ELSE [error |-> "none",
              plan |-> getPlanTypeFromAmount(amount, subscriptionDurationDays(amount)),
              days |-> subscriptionDurationDays(amount)]

PlanInit ==
    /\ InitWith({})
    /\ input \in {[amount |-> a] : a \in 0..MaxAmount}
    /\ output = NoOutput

ApplyPlan ==
    /\ output = NoOutput
    /\ output' = planAndDuration(input.amount)
    /\ UNCHANGED <<input, verifyVars, pipelineVars>>

PlanNext ==
    ApplyPlan

PlanSpec ==
    PlanInit /\ [][PlanNext]_vars

\* The largest balance of a token account.
MaxBalance ==
    2

\* The token balance lists of a transaction: up to two token accounts of the
\* payment asset, each of the payer or of the receiver.
BalanceLists ==
    LET entries == [owner : {"alice", RECEIVER}, amount : 0..MaxBalance]
    IN {<<>>} \cup {<<a>> : a \in entries} \cup {<<a, b>> : a, b \in entries}

\* validateTransaction from the extraction to its null check.
paymentDetailsOrError(meta) ==
    LET details == extractPaymentDetailsFromMeta(meta)
    IN [error |-> IF details = NoDetails THEN "NoPaymentDetected" ELSE "none",
        details |-> details]

ExtractInit ==
    /\ InitWith({})
    /\ input \in [accountKeys : {<<"alice">>, <<"alice", RECEIVER>>},
                  preTokenBalances : BalanceLists,
                  postTokenBalances : BalanceLists]
    /\ output = NoOutput

ApplyExtract ==
    /\ output = NoOutput
    /\ output' = paymentDetailsOrError(input)
    /\ UNCHANGED <<input, verifyVars, pipelineVars>>

ExtractNext ==
    ApplyExtract

ExtractSpec ==
    ExtractInit /\ [][ExtractNext]_vars

\* ------------------------------------------- POST /confirm/confirm (earlier
\* revision of api/confirm.ts, on confirmTransactions of solana/confirm.ts)
\* parseSubscriptionTransaction: payer, amount and duration read from the
\* transfer instruction of the wire transaction.
parseSubscriptionTransaction(t) ==
    LET tr == Transfer(t)
    IN [walletAddress |-> tr.source, amountUsdc |-> tr.amount,
        subscriptionDurationDays |-> subscriptionDurationDays(tr.amount)]

Rejected(w, err) ==
    /\ pc' = [pc EXCEPT ![w] = "done"]
    /\ result' = [result EXCEPT ![w] =
                    [signature |-> Empty, status |-> "failed", error |-> err]]

\* The route parses the transaction, checks wallet and minimum amount, and
\* calls confirmTransactions, which awaits rpc.sendTransaction.
LegacyStart(w) ==
    /\ pc[w] = "idle"
    /\ IF parseSubscriptionTransaction(txOf[w]).amountUsdc < MIN_AMOUNT
        THEN Rejected(w, "InvalidSubscription")
        ELSE /\ pc' = [pc EXCEPT ![w] = "sending"]
             /\ UNCHANGED result
    /\ UNCHANGED <<callVars, response, reqVars, subscribed, submitVars, validateVars, dbVars>>

\* rpc.sendTransaction returned: waitForTransactionConfirmation subscribes to
\* the signature and arms its timeout.
LegacySendReturns(w) ==
    /\ pc[w] = "sending"
    /\ pc' = [pc EXCEPT ![w] = "waiting"]
    /\ subscribed' = [subscribed EXCEPT ![w] = TRUE]
    /\ timeoutOn' = [timeoutOn EXCEPT ![w] = TRUE]
    /\ UNCHANGED <<callVars, response, reqVars, promise, isResolved, intervalOn, ticks, inflight,
                   resolveCalls, cause, errSeen, chain, validateVars, result, dbVars>>

\* rpc.sendTransaction threw: confirmTransaction returns '' and the route
\* answers 400.
LegacySendThrows(w) ==
    /\ pc[w] = "sending"
    /\ Rejected(w, "SubmissionFailed")
    /\ UNCHANGED <<callVars, response, reqVars, subscribed, submitVars, validateVars, dbVars>>

\* A stop of waitForTransactionConfirmation: the timer cleared, the
\* subscription aborted, resolve(v).
LegacyResolution(w, v, c) ==
    /\ timeoutOn' = [timeoutOn EXCEPT ![w] = FALSE]
    /\ subscribed' = [subscribed EXCEPT ![w] = FALSE]
    /\ promise' = [promise EXCEPT ![w] = resolve(@, v)]
    /\ resolveCalls' = [resolveCalls EXCEPT ![w] = @ + 1]
    /\ cause' = [cause EXCEPT ![w] = IF promise[w] = Pending THEN c ELSE @]

\* The signature notification arrives: with value.err the wait gives '',
\* else the signature.
LegacyNotification(w, r) ==
    /\ subscribed[w]
    /\ r \in Answers(txOf[w]) \cap {"ok", "err"}
    /\ chain' = Landed(txOf[w], r)
    /\ IF r = "err"
        THEN LegacyResolution(w, Empty, "onchain")
        ELSE LegacyResolution(w, Signature(txOf[w]), "confirmed")
    /\ UNCHANGED <<callVars, response, reqVars, pc, isResolved, intervalOn, ticks, inflight, errSeen,
                   validateVars, result, dbVars>>

\* The subscription fails.
LegacySubscriptionError(w) ==
    /\ subscribed[w]
    /\ LegacyResolution(w, Empty, "suberror")
    /\ UNCHANGED <<callVars, response, reqVars, pc, isResolved, intervalOn, ticks, inflight, errSeen,
                   chain, validateVars, result, dbVars>>

\* The 30 s timeout fires: abortController.abort(); resolve(''). The timer
\* is spent. The abort ends the iteration of the subscription only after the
\* notifications already queued are published, so the loop body or its catch
\* may still run once and call resolve again.
LegacyTimeout(w) ==
    /\ timeoutOn[w]
    /\ timeoutOn' = [timeoutOn EXCEPT ![w] = FALSE]
    /\ promise' = [promise EXCEPT ![w] = resolve(@, Empty)]
    /\ resolveCalls' = [resolveCalls EXCEPT ![w] = @ + 1]
    /\ cause' = [cause EXCEPT ![w] = IF promise[w] = Pending THEN "timeout" ELSE @]
    /\ UNCHANGED <<callVars, response, reqVars, pc, subscribed, isResolved, intervalOn, ticks,
                   inflight, errSeen, chain, validateVars, result, dbVars>>

\* confirmTransactions returned. With a signature the route stores the
\* payment through addPayment, status 'pending'; else it answers 400.
LegacyAfterConfirm(w, d, ok) ==
    /\ pc[w] = "waiting"
    /\ promise[w] /= Pending
    /\ d \in {now, IF now < MaxNow THEN now + 1 ELSE now}
    /\ LET details == parseSubscriptionTransaction(txOf[w])
           row == PaymentRow(promise[w], details.walletAddress, details.amountUsdc, d,
                             details.subscriptionDurationDays, "pending")
       IN
        IF promise[w] = Empty
            THEN /\ Rejected(w, "ConfirmationFailed")
                 /\ UNCHANGED <<added, pdate, upserts, upsertFailed, dbVars>>
            ELSE /\ pc' = [pc EXCEPT ![w] = "added"]
                 /\ pdate' = [pdate EXCEPT ![w] = d]
                 /\ now' = d
                 /\ added' = [added EXCEPT ![w] = InsertAccepted(row)]
                 /\ IF InsertAccepted(row)
                     THEN /\ payments' = payments \cup {row}
                          /\ history' = history \cup {<<promise[w], "none", "pending">>}
                     ELSE UNCHANGED <<payments, history>>
                 /\ IF addPaymentUpdatesSubscription(InsertAccepted(row))
                     THEN SubscriptionWrite(w, updateSubscription(subscriptions,
                                row.wallet_address, row.subscription_end_date), ok)
                     ELSE NoSubscriptionWrite
                 /\ UNCHANGED result
    /\ UNCHANGED <<callVars, response, reqVars, subscribed, submitVars, existing>>

\* addPayment returned: false answers 500, else the route upserts the
\* subscription with new Date() + duration and reports the subscription
\* confirmed.
LegacyAfterAdd(w, d, ok) ==
    /\ pc[w] = "added"
    /\ d \in {now, IF now < MaxNow THEN now + 1 ELSE now}
    /\ pc' = [pc EXCEPT ![w] = "done"]
    /\ LET details == parseSubscriptionTransaction(txOf[w]) IN
        IF ~added[w]
            THEN /\ result' = [result EXCEPT ![w] =
                        [signature |-> Empty, status |-> "failed", error |-> "PersistFailed"]]
                 /\ NoSubscriptionWrite
                 /\ UNCHANGED now
            ELSE /\ SubscriptionWrite(w, upsertSubscription(subscriptions,
                        details.walletAddress,
                        AddDays(d, details.subscriptionDurationDays)), ok)
                 /\ now' = d
                 /\ result' = [result EXCEPT ![w] =
                        [signature |-> promise[w], status |-> "confirmed", error |-> "none"]]
    /\ UNCHANGED <<callVars, response, reqVars, subscribed, submitVars, existing, added, pdate,
                   payments, history>>

LegacyNext ==
    \E w \in Workers :
        \/ LegacyStart(w)
        \/ LegacySendReturns(w)
        \/ LegacySendThrows(w)
        \/ \E r \in {"ok", "err"} : LegacyNotification(w, r)
        \/ LegacySubscriptionError(w)
        \/ LegacyTimeout(w)
        \/ \E d \in 1..MaxNow, ok \in BOOLEAN : LegacyAfterConfirm(w, d, ok)
        \/ \E d \in 1..MaxNow, ok \in BOOLEAN : LegacyAfterAdd(w, d, ok)

\* The earlier route reads no payments entry.
LegacyInit ==
    Init /\ \A w \in Workers : ~hasPayment[w]

LegacySpec ==
    LegacyInit /\ [][LegacyNext]_vars

\* ------------------------------------------------------------------ claims
\* The handler got a signature from rpc.sendTransaction.
Submitted(w) ==
    /\ pc[w] \notin {"off", "idle", "sending"}
    /\ ~(pc[w] = "done" /\ result[w].error = "SubmissionFailed")

\* The value the first resolution of confirmSignature delivered.
FirstOutcome(w) ==
    IF cause[w] = "confirmed" THEN Signature(txOf[w]) ELSE Empty

\* validateTransaction of handler w got as far as the INSERT of addPayment.
TriedInsert(w) ==
    pdate[w] > 0

\* validateTransaction of handler w returned without throwing.
Recorded(w) ==
    pc[w] = "upserted" \/ (pc[w] = "done" /\ TriedInsert(w) /\ result[w].status = "confirmed")

\* C1: every invocation of confirmSignature runs a resolution at most once,
\* and the outcome it delivered first stays the outcome.
C1_ExactlyOneResolution ==
    \A w \in Workers :
        /\ resolveCalls[w] <= 1
        /\ promise[w] /= Pending => promise[w] = FirstOutcome(w)

\* C2: once the signature is obtained the promise of confirmSignature is
\* settled eventually, and it is never still pending after the interval
\* timer has fired TIMEOUT_DURATION / 500 times.
C2_EventuallyTerminal ==
    /\ [](\A w \in Workers :
            pc[w] = "confirming" /\ promise[w] = Pending => ticks[w] <= TicksToTimeout)
    /\ \A w \in Workers : (pc[w] = "confirming") ~> (promise[w] /= Pending)

C2_Witness ==
    \E w \in Workers : cause[w] = "timeout" /\ promise[w] = Empty /\ inflight[w] > 0

\* C3: a submission that timed out and one that failed on the chain deliver
\* different outcomes, to the caller of sendTransaction and in the result for
\* the client.
C3_TimedOutDistinctFromFailed ==
    \A w1, w2 \in Workers :
        pc[w1] = "done" /\ pc[w2] = "done" /\ cause[w1] = "timeout" /\ cause[w2] = "onchain"
            => /\ promise[w1] /= promise[w2]
               /\ result[w1].status /= result[w2].status

\* C4: once a poll was answered with an on-chain error the outcome is failed
\* (the empty signature) for good, and no poll is sent any more.
C4_FailedIsFinal ==
    /\ [](\A w \in Workers : errSeen[w] => promise[w] = Empty /\ ~intervalOn[w])
    /\ [][\A w \in Workers : errSeen[w] => inflight'[w] <= inflight[w]]_vars

C4_Witness ==
    \E w \in Workers : errSeen[w] /\ cause[w] = "onchain" /\ inflight[w] > 0

\* C5: validateTransaction called for a signature that has a row already
\* throws 'Payment already processed', and the table holds one row of it.
C5_SecondCallDuplicate ==
    \A w \in Workers :
        pc[w] = "done" /\ existing[w]
            => /\ result[w].error = "DuplicatePayment"
               /\ Cardinality(getPaymentByTransactionHash(promise[w])) = 1

C5_Witness ==
    \E w \in Workers :
        /\ pc[w] = "done" /\ existing[w] /\ result[w].error = "DuplicatePayment"
        /\ \E v \in Workers \ {w} : pc[v] = "done" /\ Recorded(v) /\ txOf[v] = txOf[w]

\* C6: when two handlers of one transaction both pass the existing-payment
\* check and both reach the INSERT, one row is stored and at most one of
\* them reports the payment recorded.
C6_ConcurrentInsertOnce ==
    \A w1, w2 \in Workers :
        w1 /= w2 /\ txOf[w1] = txOf[w2] /\ TriedInsert(w1) /\ TriedInsert(w2)
            => /\ Cardinality(getPaymentByTransactionHash(Signature(txOf[w1]))) = 1
               /\ ~(added[w1] /\ added[w2])
               /\ ~(Recorded(w1) /\ Recorded(w2))

C6_Witness ==
    \E w1, w2 \in Workers :
        /\ w1 /= w2 /\ txOf[w1] = txOf[w2] /\ TriedInsert(w1) /\ TriedInsert(w2)
        /\ pc[w1] = "done" /\ pc[w2] = "done"
        /\ result[w1].status = "confirmed" /\ result[w2].error = "PersistFailed"

\* The row of the payment handler w recorded.
RowOf(w) ==
    CHOOSE r \in payments : r.transaction_hash = promise[w]

C8_RowIffSubmitted ==
    (\A w \in Workers : pc[w] \in {"done", "off"})
        => \A t \in Txs :
            getPaymentByTransactionHash(Signature(t)) /= {}
                <=> \E w \in Workers : txOf[w] = t /\ Submitted(w)

\* C9: the status of a row only goes from pending to confirmed or to failed,
\* and a row once inserted stays in the table.
C9_StatusOnlyLeavesPending ==
    \A h \in history :
        IF h[2] = "none"
            THEN getPaymentByTransactionHash(h[1]) /= {}
            ELSE h[2] = "pending" /\ h[3] \in {"confirmed", "failed"}

\* C10: once every request is answered no payment row is left pending.
C10_NoRowLeftPending ==
    (\A w \in Workers : pc[w] = "done")
        => \A r \in payments : r.status /= "pending"

\* C11: every payment row was stored by a call that has attempted the
\* subscription write for the row's payer, and a call that stored a row has
\* attempted it by the time it returns, also when the write fails.
C11_RowImpliesUpsertAttempted ==
    /\ \A r \in payments :
        \E w \in Workers :
            /\ promise[w] = r.transaction_hash /\ added[w] /\ upserts[w] >= 1
            /\ extractPaymentDetailsFromMeta(TxMeta(promise[w])).walletAddress
                 = r.wallet_address
    /\ \A w \in Workers : pc[w] \in {"upserted", "done"} /\ added[w] => upserts[w] >= 1

\* The row is stored, the write for its payer was attempted and failed, and
\* the call has not returned yet.
C11_Witness ==
    \E w \in Workers :
        /\ pc[w] = "added" /\ added[w] /\ upserts[w] = 1 /\ upsertFailed[w]
        /\ getPaymentByTransactionHash(promise[w]) /= {}

\* C12: when a subscription write fails after the payment row was stored,
\* validateTransaction still returns and the route reports the payment
\* confirmed; the row is still there, with the status the call gave it unless
\* a status update of another call changed it.
C12_UpsertFailureNotRaised ==
    \A w \in Workers :
        pc[w] = "done" /\ added[w] /\ upsertFailed[w]
            => /\ result[w].status = "confirmed"
               /\ \E r \in getPaymentByTransactionHash(promise[w]) :
                    \/ r.status = "confirmed"
                    \/ <<promise[w], "confirmed", r.status>> \in history

C12_Witness ==
    \E w \in Workers :
        /\ pc[w] = "done" /\ added[w] /\ upsertFailed[w] /\ upserts[w] = 2
        /\ result[w].status = "confirmed"
        /\ subscriptions[RowOf(w).wallet_address] /= RowOf(w).subscription_end_date

\* C13: a confirmation processed for a transaction whose payment row exists
\* already gives the client a result that is no error, and leaves one row.
C13_DuplicateAlreadyHandled ==
    \A w \in Workers :
        pc[w] = "done" /\ existing[w]
            => /\ result[w].status = "confirmed"
               /\ result[w].error = "none"
               /\ Cardinality(getPaymentByTransactionHash(promise[w])) = 1

\* The confirmation of handler w found the transaction landed without error.
SucceededOnChain(w) ==
    cause[w] = "confirmed"

\* C14: a result is confirmed only when the transaction succeeded on the
\* chain and its payment was validated and stored, and it is
\* confirmed_but_validation_failed exactly when the transaction succeeded on
\* the chain and validation or storing failed.
C14_ResultStatus ==
    \A w \in Workers :
        pc[w] = "done"
            => /\ result[w].status \in
                    {"confirmed", "confirmed_but_validation_failed", "failed"}
               /\ result[w].status = "confirmed" => SucceededOnChain(w) /\ Recorded(w)
               /\ result[w].status = "confirmed_but_validation_failed"
                    <=> SucceededOnChain(w) /\ ~Recorded(w)

\* The transaction hashes that have a payment row: all that the outcome of a
\* handler reads of what the other handlers did.
StoredHashes(rows) ==
    {r.transaction_hash : r \in rows}

\* C15: the batch is answered only when every handler has its result, the
\* answer holds one result per transaction in the order of the request, a
\* step that gives one handler its result leaves the results of the others,
\* and a result once given, as they are, and a step in which a handler fails
\* or times out leaves the stored transaction hashes as they are.
C15_JoinAll ==
    /\ [](response /= <<>>
            => /\ \A w \in Workers : pc[w] \in {"done", "off"}
               /\ Len(response) = Cardinality({w \in Workers : pc[w] /= "off"})
               /\ \A i \in 1..Len(response) :
                    /\ response[i] = result[Batch[i]]
                    /\ response[i].status /= "none"
                    /\ response[i].signature \in {Empty, Signature(txOf[Batch[i]])})
    /\ [][\A w \in Workers :
            /\ result[w] /= NoResult => result'[w] = result[w]
            /\ result'[w] /= result[w]
                => \A v \in Workers \ {w} : result'[v] = result[v] /\ pc'[v] = pc[v]
            /\ \/ promise'[w] = Empty /\ promise[w] = Pending
               \/ result'[w].status = "failed" /\ result[w] = NoResult
                => StoredHashes(payments') = StoredHashes(payments)]_vars

\* One transaction failed or timed out, the other is confirmed, and the
\* batch is answered.
C15_Witness ==
    /\ Len(response) = 2
    /\ response[1].status = "failed"
    /\ response[2].status = "confirmed"
    /\ cause["w1"] = "timeout"

\* C16: the plan and the duration of the amounts 2, 10, 20, 100 and 7, and
\* the rejection of 1.
C16_PlanTable ==
    output /= NoOutput
        => /\ input.amount = 2
                => output = [error |-> "none", plan |-> "Monthly Pro I", days |-> 30]
           /\ input.amount = 10
                => output = [error |-> "none", plan |-> "Monthly Pro II", days |-> 30]
           /\ input.amount = 20
                => output = [error |-> "none", plan |-> "Yearly Pro I", days |-> 365]
           /\ input.amount = 100
                => output = [error |-> "none", plan |-> "Yearly Pro II", days |-> 365]
           /\ input.amount = 7
                => output = [error |-> "none", plan |-> "Custom Plan", days |-> 30]
           /\ input.amount = 1 => output.error = "AmountTooLow"

\* C17: after the subscription write of a recorded payment, the payer's end
\* date is that payment's date plus its duration, whatever was stored before.
C17_EndDateFromPaymentDate ==
    \A w \in Workers :
        lastWriter = w
            => /\ added[w]
               /\ subscriptions[RowOf(w).wallet_address]
                    = AddDays(RowOf(w).payment_date, RowOf(w).subscription_duration_days)

\* The end date stored before was later: the other payment had written the
\* end of its year, and this payment's month replaced it.
C17_Witness ==
    \E w \in Workers, v \in Workers :
        /\ v /= w /\ lastWriter = w /\ Recorded(w)
        /\ Recorded(v) /\ ~upsertFailed[v] /\ txOf[v] /= txOf[w]
        /\ RowOf(v).wallet_address = RowOf(w).wallet_address
        /\ RowOf(v).subscription_end_date > subscriptions[RowOf(w).wallet_address]

\* C18: every payment row belongs to a transaction that paid the configured
\* receiver.
C18_OnlyPaymentsToReceiver ==
    \A r \in payments :
        \A t \in Txs :
            Signature(t) = r.transaction_hash => Transfer(t).destination = RECEIVER

RECURSIVE SumAmounts(_)
\* The sum of the amounts of a token balance list.
SumAmounts(balances) ==
    IF balances = <<>> THEN 0 ELSE Head(balances).amount + SumAmounts(Tail(balances))

\* The net change of owner's balance of the payment asset over all of the
\* owner's token accounts.
NetChange(meta, owner) ==
    SumAmounts(OwnedBy(meta.postTokenBalances, owner))
        - SumAmounts(OwnedBy(meta.preTokenBalances, owner))

\* C19: a transaction in which the payer's balance of the payment asset did
\* not go down and the receiver's did not go up gives NoPaymentDetected.
C19_NoChangeNoPayment ==
    output /= NoOutput
    /\ NetChange(input, input.accountKeys[1]) >= 0
    /\ NetChange(input, RECEIVER) <= 0
        => output.error = "NoPaymentDetected"

\* const MAX_RETRIES = 5
MAX_RETRIES ==
    5

\* The polls confirmSignature has issued while it is unresolved: the initial
\* check and one for every firing of the interval.
PollsIssued(w) ==
    IF intervalOn[w] /\ ~isResolved[w] THEN 1 + ticks[w] ELSE 0

\* C20: one submission issues at most MAX_RETRIES polls.
C20_PollsWithinBudget ==
    \A w \in Workers : PollsIssued(w) <= MAX_RETRIES

\* C27: a call of validateTransaction that fails -- the payment exists
\* already, no payment is detected, the amount is below the minimum, or the
\* INSERT is rejected -- leaves the payments table and the subscriptions
\* table as they were: none of its steps writes.
C27_FailedCallWritesNothing ==
    [][\A w \in Workers :
        (\/ pc[w] = "validating" /\ pc'[w] = "done"
         \/ pc[w] = "validating" /\ pc'[w] = "added" /\ ~added'[w]
         \/ pc[w] = "added" /\ ~added[w] /\ pc'[w] = "done")
            => payments' = payments /\ subscriptions' = subscriptions]_vars

\* A call whose INSERT was rejected has failed without a subscription write,
\* and the row that made it fail is in the table.
C27_Witness ==
    \E w \in Workers :
        /\ pc[w] = "done" /\ ~existing[w] /\ ~added[w] /\ upserts[w] = 0
        /\ result[w] = Failure(promise[w], "PersistFailed")
        /\ getPaymentByTransactionHash(promise[w]) /= {}

\* C28: the subscriptionDetails of a result with status confirmed give the
\* payer, the amount and the duration of the payment row stored for its
\* signature, whatever the payments entry of the request says.
C28_DetailsFromRow ==
    \A w \in Workers :
        pc[w] = "done" /\ result[w].status = "confirmed" /\ hasPayment[w]
            => \E r \in getPaymentByTransactionHash(promise[w]) :
                /\ subscriptionDetails(w).walletAddress = r.wallet_address
                /\ subscriptionDetails(w).amountUsdc = r.amount_usdc
                /\ subscriptionDetails(w).durationDays = r.subscription_duration_days

\* C30: the promise of waitForTransactionConfirmation is settled at most
\* once -- a later resolve of the timeout, of a notification or of a
\* subscription error changes nothing -- and its value is the signature only
\* if what settled it was a notification without error, before any timeout.
C30_DeliveredOnce ==
    /\ [][\A w \in Workers : promise[w] /= Pending => promise'[w] = promise[w]]_vars
    /\ [](\A w \in Workers :
            promise[w] \notin {Pending, Empty}
                => /\ promise[w] = Signature(txOf[w])
                   /\ cause[w] = "confirmed"
                   /\ chain[txOf[w]] = "ok")

\* The timeout settled the wait with '', and a notification of success that
\* was already queued ran resolve a second time.
C30_Witness ==
    \E w \in Workers :
        /\ promise[w] = Empty /\ cause[w] = "timeout" /\ resolveCalls[w] = 2
        /\ chain[txOf[w]] = "ok" /\ ~subscribed[w] /\ ~timeoutOn[w]

\* ------------------------------------------------ prepareLegacyTransaction
\* const MAX_COMPUTE_UNITS = 1_400_000
MAX_COMPUTE_UNITS ==
    1400000

\* const MIN_LAMPORTS_PER_CU = 10_000
MIN_LAMPORTS_PER_CU ==
    10000

\* const MAX_LAMPORTS_PER_CU = 70_000
MAX_LAMPORTS_PER_CU ==
    70000

\* A JavaScript number that is a value.
Num(n) ==
    [nan |-> FALSE, v |-> n]

\* The JavaScript number NaN, what dividing a non-numeric value gives.
NaN ==
    [nan |-> TRUE, v |-> 0]

\* Math.max: NaN when either argument is NaN.
MathMax(a, b) ==
    IF a.nan \/ b.nan THEN NaN ELSE IF a.v >= b.v THEN a ELSE b

\* Math.min: NaN when either argument is NaN.
MathMin(a, b) ==
    IF a.nan \/ b.nan THEN NaN ELSE IF a.v <= b.v THEN a ELSE b

clampWithoutCeiling(fee) ==
    MathMax(fee, Num(MIN_LAMPORTS_PER_CU))

\* Math.min(Math.max(fee, MIN_LAMPORTS_PER_CU), MAX_LAMPORTS_PER_CU)
clampLamportsPerCu(fee) ==
    MathMin(MathMax(fee, Num(MIN_LAMPORTS_PER_CU)), Num(MAX_LAMPORTS_PER_CU))

\* The largest multiple of the fee step the fee query answers.
MaxFeeSteps ==
    30

\* What the call of qn_estimatePriorityFees can give: the fetch or the JSON
\* parse throws; the body is null; it has no result; the result has no
\* recommended member; recommended is a text; recommended is the number
\* num/den -- negative, zero, fractional, around both limits, or very large.
FeeAnswers ==
    {[shape |-> s, num |-> 0, den |-> 1] :
        s \in {"throws", "null", "noResult", "noRecommended", "text"}}
    \cup {[shape |-> "number", num |-> k * 2500000 + o, den |-> d] :
            k \in -2..MaxFeeSteps, o \in {0, 999}, d \in {1, 2}}
    \cup {[shape |-> "number", num |-> 2000000000, den |-> 1]}

\* getPriorityFeeEstimate: the minimum when the call throws or the answer
\* has no truthy recommended member, else recommended / 1000 rounded down
\* and clamped.
getPriorityFeeEstimate(answer) ==
    IF answer.shape \in {"throws", "null", "noResult", "noRecommended"}
        THEN Num(MIN_LAMPORTS_PER_CU)
    ELSE IF answer.shape = "number" /\ answer.num = 0
        THEN Num(MIN_LAMPORTS_PER_CU)
    ELSE LET recommendedFee ==
                IF answer.shape = "number"
                    THEN Num(answer.num \div (answer.den * 1000))
                    ELSE NaN
         IN clampLamportsPerCu(recommendedFee)

\* The largest multiple of 100,000 units a simulation reports.
MaxUnitSteps ==
    14

\* The consumed units a simulation reports, 0 when it reports none; no
\* transaction consumes more than the network allows.
UnitSamples ==
    {u \in {k * 100000 : k \in 0..MaxUnitSteps} : u <= MAX_COMPUTE_UNITS}

\* What simulateTransaction answers: value.err, value.logs by what they
\* hold, value.unitsConsumed.
Simulations ==
    [err : {"none", "InsufficientFundsForRent", "other"},
     logs : {"null", "empty", "InvalidLockupAmount", "slippage", "lamports", "other"},
     unitsConsumed : UnitSamples]

\* getComputeUnits: throws on an error that comes with logs, else the
\* consumed units, MAX_COMPUTE_UNITS when none are reported.
getComputeUnits(simulation) ==
    IF simulation.err /= "none" /\ simulation.logs /= "null"
        THEN [error |->
                IF simulation.err = "InsufficientFundsForRent"
                    THEN "You need more SOL to pay for transaction fees"
                ELSE IF simulation.logs = "empty"
                    THEN "You need more SOL to pay for transaction fees"
                ELSE IF simulation.logs = "InvalidLockupAmount"
                    THEN "Invalid staked amount: Should be > 1"
                ELSE IF simulation.logs = "slippage"
                    THEN "Maximum slippage reached"
                ELSE IF simulation.logs = "lamports"
                    THEN "You need more SOL to pay for transaction fees"
                ELSE "Transaction simulation error",
              units |-> 0]
        ELSE [error |-> "none",
              units |-> IF simulation.unitsConsumed = 0
                            THEN MAX_COMPUTE_UNITS
                            ELSE simulation.unitsConsumed]

\* Math.ceil(computeUnitsResult.units * 1.2)
marginedUnits(consumed) ==
    (consumed * 12 + 9) \div 10

\* What prepareLegacyTransaction returns when its catch block ran.
NoTransaction ==
    [transaction |-> Empty, units |-> 0, lamportsPerCu |-> Num(0)]

\* prepareLegacyTransaction from the simulation on: the base64 transaction
\* with its two budget instructions, or '' from the catch block. encodes is
\* whether ComputeBudgetProgram.setComputeUnitPrice accepts a NaN price.
prepareLegacyTransaction(simulation, answer, encodes) ==
    LET computeUnitsResult == getComputeUnits(simulation)
        microLamports == getPriorityFeeEstimate(answer)
        units == marginedUnits(computeUnitsResult.units)
        lamportsPerCu == clampLamportsPerCu(microLamports)
    IN IF computeUnitsResult.error /= "none" THEN NoTransaction
       ELSE IF units = 0 THEN NoTransaction
       ELSE IF lamportsPerCu.nan /\ ~encodes THEN NoTransaction
       ELSE [transaction |-> "wire", units |-> units, lamportsPerCu |-> lamportsPerCu]

PrepareInit ==
    /\ InitWith({})
    /\ input \in [simulation : Simulations, answer : FeeAnswers]
    /\ output = NoOutput

ApplyPrepare(encodes) ==
    /\ output = NoOutput
    /\ output' = prepareLegacyTransaction(input.simulation, input.answer, encodes)
    /\ UNCHANGED <<input, verifyVars, pipelineVars>>

PrepareNext ==
    \E encodes \in BOOLEAN : ApplyPrepare(encodes)

PrepareSpec ==
    PrepareInit /\ [][PrepareNext]_vars

\* C22: whatever number the fee query recommends -- negative, zero, a
\* fraction, very large -- the estimate lies within [MIN_LAMPORTS_PER_CU,
\* MAX_LAMPORTS_PER_CU], and so does the price of the set-compute-unit-price
\* instruction of a transaction that is built.
C22_UnitPriceWithinBounds ==
    output /= NoOutput /\ input.answer.shape = "number"
        => /\ ~getPriorityFeeEstimate(input.answer).nan
           /\ getPriorityFeeEstimate(input.answer).v >= MIN_LAMPORTS_PER_CU
           /\ getPriorityFeeEstimate(input.answer).v <= MAX_LAMPORTS_PER_CU
           /\ output.transaction /= Empty
                => /\ ~output.lamportsPerCu.nan
                   /\ output.lamportsPerCu.v >= MIN_LAMPORTS_PER_CU
                   /\ output.lamportsPerCu.v <= MAX_LAMPORTS_PER_CU

\* A very large recommendation was answered and the transaction carries the
\* maximum price.
C22_Witness ==
    /\ output /= NoOutput /\ output.transaction /= Empty
    /\ input.answer.shape = "number"
    /\ input.answer.num > 1000 * input.answer.den * MAX_LAMPORTS_PER_CU
    /\ output.lamportsPerCu = Num(MAX_LAMPORTS_PER_CU)

\* C23: the unit limit of a transaction that is built is the consumed units
\* (the default when none are reported) plus a margin of 10 to 20 percent,
\* rounded up, and never more than MAX_COMPUTE_UNITS.
C23_UnitLimitWithinMaximum ==
    output /= NoOutput /\ output.transaction /= Empty
        => LET consumed == getComputeUnits(input.simulation).units
           IN /\ output.units <= MAX_COMPUTE_UNITS
              /\ 10 * output.units >= 11 * consumed
              /\ 10 * output.units <= 12 * consumed + 9

\* C24: when the fee query throws, answers without a usable recommendation
\* or answers something that is no number, and the simulation passes, the
\* transaction is built with MIN_LAMPORTS_PER_CU as its price.
C24_FeeFallback ==
    output /= NoOutput /\ input.answer.shape /= "number"
    /\ getComputeUnits(input.simulation).error = "none"
        => /\ output.transaction /= Empty
           /\ output.lamportsPerCu = Num(MIN_LAMPORTS_PER_CU)

\* ------------------------------------------- POST /subscription/transaction
\* The payer's token account of the payment asset as the RPC shows it: the
\* lookup fails (bad address, no mint info, the RPC throws), there is no
\* associated token account, or there is one holding `held`.
AccountStates ==
    {[kind |-> k, held |-> 0] : k \in {"lookupFails", "noAccount"}}
    \cup {[kind |-> "account", held |-> b] : b \in 0..MaxBalance}

\* The null that the balance functions return.
NullBalance ==
    [isNull |-> TRUE, balance |-> 0, uiAmount |-> 0]

\* getSplTokenBalance: null when the lookup fails, a balance object of zero
\* when there is no associated token account, else the raw amount with its
\* UI amount.
getSplTokenBalance(account) ==
    IF account.kind = "lookupFails" THEN NullBalance
    ELSE IF account.kind = "noAccount"
        THEN [isNull |-> FALSE, balance |-> 0, uiAmount |-> 0]
    ELSE [isNull |-> FALSE, balance |-> account.held * 1000000, uiAmount |-> account.held]

\* getTokenBalance for an SPL mint: null, or the object of
\* getSplTokenBalance with the mint added.
getTokenBalance(account) ==
    LET splBalance == getSplTokenBalance(account)
    IN IF splBalance.isNull THEN NullBalance ELSE splBalance

\* new BigNumber(v): the number a numeric string denotes, NaN for an object
\* that is no BigNumber.
BigNumber(v) ==
    IF v.type = "string" THEN Num(v.n) ELSE NaN

\* a.isGreaterThan(b): false when either is NaN.
isGreaterThan(a, b) ==
    ~a.nan /\ ~b.nan /\ a.v > b.v

\* a.isLessThanOrEqualTo(b): false when either is NaN.
isLessThanOrEqualTo(a, b) ==
    ~a.nan /\ ~b.nan /\ a.v <= b.v

\* validateAmount: the error it throws, "none" when it returns. shown is
\* the balance its message shows.
validateAmount(amount, account, metadata) ==
    LET inputAmount == BigNumber([type |-> "string", n |-> amount])
        balance == getTokenBalance(account)
        userBalance == BigNumber([type |-> "object", n |-> balance.uiAmount])
        thrown(err) == [error |-> err, shown |-> Num(0)]
    IN IF isLessThanOrEqualTo(inputAmount, Num(0)) THEN thrown("InvalidAmount")
       ELSE IF balance.isNull THEN thrown("AssetNotHeld")
       ELSE IF isGreaterThan(inputAmount, userBalance)
            THEN IF ~metadata
                    THEN thrown("TokenNotFound")
                    ELSE [error |-> "InsufficientBalance", shown |-> userBalance]
       ELSE thrown("none")

\* The route: validateAmount, the transfer instruction, the prepared
\* transaction, and the answer -- 400 with the message of whatever threw,
\* else the transaction as the builder returned it.
subscriptionTransaction(request, encodes) ==
    LET validation == validateAmount(request.amount, request.account, request.metadata)
        transaction == prepareLegacyTransaction(request.simulation, request.answer,
                                                encodes).transaction
    IN IF validation.error /= "none"
        THEN [status |-> 400, message |-> validation.error, shown |-> validation.shown,
              transaction |-> "absent"]
        ELSE [status |-> 200, message |-> "none", shown |-> Num(0),
              transaction |-> transaction]

\* The requests: amounts from below zero to above every balance, every
\* state of the payer's account, the token metadata found or not, and what
\* the network answers to the simulation and to the fee query.
BuildInit ==
    /\ InitWith({})
    /\ input \in [amount : -1..(MaxBalance + 2),
                  account : AccountStates,
                  metadata : BOOLEAN,
                  simulation : {s \in Simulations : s.unitsConsumed \in {0, 200000}},
                  answer : {a \in FeeAnswers : a.shape = "throws" \/ a.num = 20000000}]
    /\ output = NoOutput

ApplyBuild(encodes) ==
    /\ output = NoOutput
    /\ output' = subscriptionTransaction(input, encodes)
    /\ UNCHANGED <<input, verifyVars, pipelineVars>>

BuildNext ==
    \E encodes \in BOOLEAN : ApplyBuild(encodes)

BuildSpec ==
    BuildInit /\ [][BuildNext]_vars

C25_InsufficientBalance ==
    output /= NoOutput /\ input.account.kind = "account"
    /\ input.amount > input.account.held
        => /\ output.status = 400
           /\ output.message = "InsufficientBalance"
           /\ output.shown = Num(input.account.held)
           /\ output.transaction = "absent"

\* C26: when the payer has no account for the payment asset, every positive
\* amount is answered with AssetNotHeld.
C26_AssetNotHeld ==
    output /= NoOutput /\ input.account.kind = "noAccount" /\ input.amount > 0
        => /\ output.status = 400
           /\ output.message = "AssetNotHeld"

\* ------------------------------------------------------- verifyTransactions
\* const backoffIntervals = [500, 1000, 2000]
backoffIntervals ==
    <<500, 1000, 2000>>

\* The longest array of signatures verified.
MaxSignatures ==
    3

\* The arrays confirmTransactions hands over: a signature, or '' where the
\* confirmation failed, per transaction.
SignatureLists ==
    UNION {[1..n -> {Empty, Signature("t1"), Signature("t2")}] : n \in 0..MaxSignatures}

verifiedSignatureIgnoringErr(sig, map) ==
    IF sig = Empty THEN Empty
    ELSE IF map[sig] = "none" THEN Empty
    ELSE sig

\* One entry of verifiedSignatures: '' for '', for a signature that was
\* not fetched and for one whose transaction has meta.err, else the
\* signature.
verifiedSignature(sig, map) ==
    IF sig = Empty THEN Empty
    ELSE IF map[sig] = "none" THEN Empty
    ELSE IF map[sig] = "err" THEN Empty
    ELSE sig

\* The signatures that are not '' become pending, each with its index.
VerifyStart ==
    /\ verifyPc = "idle"
    /\ LET items == [i \in 1..Len(input.signatures) |->
                        [sig |-> input.signatures[i], idx |-> i]]
           NotEmpty(item) == item.sig /= Empty
       IN pendingSignatures' = SelectSeq(items, NotEmpty)
    /\ attempt' = 0
    /\ verifyPc' = "loop"
    /\ UNCHANGED <<input, output, fetchedMap, waited, fetchRounds, pipelineVars>>

\* One round of the loop: getTransaction for every pending signature --
\* answers gives the transaction found without error ("ok"), found with
\* meta.err ("err"), or not found or the call threw ("null") -- the fetched
\* ones enter fetchedMap and leave the pending ones; with signatures left
\* and a backoff interval left the function waits.
VerifyFetch(answers) ==
    /\ verifyPc = "loop"
    /\ attempt <= Len(backoffIntervals)
    /\ pendingSignatures /= <<>>
    /\ LET sigsToFetch == {pendingSignatures[i].sig : i \in 1..Len(pendingSignatures)}
           fetched == [s \in DOMAIN fetchedMap |->
                        IF s \in sigsToFetch /\ answers[s] /= "null"
                            THEN answers[s]
                            ELSE fetchedMap[s]]
           StillPending(item) == fetched[item.sig] = "none"
           left == SelectSeq(pendingSignatures, StillPending)
       IN /\ answers \in [sigsToFetch -> {"ok", "err", "null"}]
          /\ fetchedMap' = fetched
          /\ pendingSignatures' = left
          /\ IF left /= <<>> /\ attempt < Len(backoffIntervals)
                THEN verifyPc' = "waiting" /\ UNCHANGED attempt
                ELSE verifyPc' = "loop" /\ attempt' = attempt + 1
    /\ fetchRounds' = fetchRounds + 1
    /\ UNCHANGED <<input, output, waited, pipelineVars>>

\* The timer of backoffIntervals[attempt] fires and the loop goes on.
VerifyWake ==
    /\ verifyPc = "waiting"
    /\ waited' = Append(waited, backoffIntervals[attempt + 1])
    /\ attempt' = attempt + 1
    /\ verifyPc' = "loop"
    /\ UNCHANGED <<input, output, pendingSignatures, fetchedMap, fetchRounds, pipelineVars>>

\* The loop has ended, by its break or by its bound: verifiedSignatures is
\* returned.
VerifyFinish ==
    /\ verifyPc = "loop"
    /\ attempt > Len(backoffIntervals) \/ pendingSignatures = <<>>
    /\ output' = [error |-> "none",
                  verified |-> [i \in 1..Len(input.signatures) |->
                                    verifiedSignature(input.signatures[i], fetchedMap)]]
    /\ verifyPc' = "done"
    /\ UNCHANGED <<input, attempt, pendingSignatures, fetchedMap, waited, fetchRounds,
                   pipelineVars>>

VerifyInit ==
    /\ InitWith({})
    /\ input \in {[signatures |-> s] : s \in SignatureLists}
    /\ output = NoOutput

VerifyNext ==
    \/ VerifyStart
    \/ \E answers \in [{Signature(t) : t \in Txs} -> {"ok", "err", "null"}] :
            VerifyFetch([s \in {pendingSignatures[i].sig : i \in 1..Len(pendingSignatures)}
                            |-> answers[s]])
    \/ VerifyWake
    \/ VerifyFinish

VerifySpec ==
    VerifyInit /\ [][VerifyNext]_vars

\* C29: verifyTransactions makes at most four rounds of fetches, with the
\* waits of 500, 1000 and 2000 ms between them, and returns an array as long
\* as its input whose entry i is '' or signature i, and signature i only if
\* its transaction was fetched and shows no error.
C29_VerifiedSignatures ==
    /\ fetchRounds <= Len(backoffIntervals) + 1
    /\ fetchRounds <= Len(waited) + 1
    /\ \E n \in 0..Len(backoffIntervals) : waited = SubSeq(backoffIntervals, 1, n)
    /\ verifyPc = "done"
        => /\ Len(output.verified) = Len(input.signatures)
           /\ \A i \in 1..Len(input.signatures) :
                \/ output.verified[i] = Empty
                \/ /\ output.verified[i] = input.signatures[i]
                   /\ fetchedMap[input.signatures[i]] = "ok"

\* All four rounds and all three waits were made; one signature is
\* returned, another one is answered with ''.
C29_Witness ==
    /\ verifyPc = "done" /\ fetchRounds = 4 /\ waited = <<500, 1000, 2000>>
    /\ \E i, j \in 1..Len(input.signatures) :
        /\ output.verified[i] /= Empty
        /\ input.signatures[j] /= Empty /\ output.verified[j] = Empty

====
